---- MODULE Spec2Model ----
(***************************************************************************)
(* Flask-Mongo user accounts: the password utilities, the user controller  *)
(* (create / get / list / change password) over the "users" collection,    *)
(* and the MongoDBConnection singleton that hands out the client and the   *)
(* database handle.                                                        *)
(*                                                                         *)
(* Requests run concurrently (one thread per request); a request is split  *)
(* at its database calls, which are the points where another request can   *)
(* interleave.  utils/user_utils.py (UserUtils) is not part of the         *)
(* sources: its operations are modelled from the AccountStore section of   *)
(* the specification.                                                      *)
(***************************************************************************)
EXTENDS Integers, Sequences, FiniteSets, TLC

VARIABLES
    store,            \* the "users" collection: documents in insertion order
    clock,            \* logical time used for created_at / updated_at
    pc,               \* per request thread: where the handler stands
    arg,              \* per request thread: the request being handled
    resp,             \* the last (response, status) pair returned to a caller
    succ,             \* per email: number of 201 responses of create_user
    started,          \* number of requests that reached the database
    serverUp,         \* whether the MongoDB server answers
    bcryptTruncates,  \* the installed bcrypt: truncates at 72 bytes, or raises
    _client,          \* MongoDBConnection._client
    _database,        \* MongoDBConnection._database
    cpc,              \* per caller thread: position inside the connection code
    cop,              \* per caller thread: the accessor being executed
    cret,             \* per caller thread: what the last accessor returned
    catt,             \* per caller thread: cache state at call start, attempts made
    created,          \* number of MongoClient objects ever constructed
    closed,           \* clients on which close() has been called
    pinged,           \* clients whose ping succeeded
    calls,            \* number of accessor calls started
    pwIn,             \* the plaintexts and the salt handed to PasswordUtils
    pwOut             \* what PasswordUtils returned for them

acctVars == <<store, clock, pc, arg, resp, succ, started>>
connVars == <<_client, _database, cpc, cop, cret, catt, created, closed, pinged, calls>>
pwVars == <<pwIn, pwOut>>
vars == <<store, clock, pc, arg, resp, succ, started, serverUp, bcryptTruncates,
          _client, _database, cpc, cop, cret, catt, created, closed, pinged, calls,
          pwIn, pwOut>>

(***************************************************************************)
(* Bounds of the model.                                                    *)
(***************************************************************************)
NumReq == 2          \* request threads of the account service
MaxStarted == 3      \* requests that may reach the database in one run
NumSalts == 1        \* distinct salts bcrypt.gensalt() may draw
NumThreads == 2      \* threads calling the connection accessors
MaxCalls == 4        \* accessor calls in one run
MaxUserId == 2       \* user ids a request may name
MaxStored == 102     \* largest collection listed by get_all_users

Reqs == 1..NumReq
Salts == 1..NumSalts

\* None, as the value of the client / database attribute or of a return
None == 0

(***************************************************************************)
(* Characters and passwords.  A password is its sequence of characters;    *)
(* all characters used are ASCII, so encode('utf-8') yields one byte per   *)
(* character.                                                              *)
(***************************************************************************)
UpperChars == {"A","B","C","D","E","F","G","H","I","J","K","L","M",
               "N","O","P","Q","R","S","T","U","V","W","X","Y","Z"}
LowerChars == {"a","b","c","d","e","f","g","h","i","j","k","l","m",
               "n","o","p","q","r","s","t","u","v","w","x","y","z"}
DigitChars == {"0","1","2","3","4","5","6","7","8","9"}
special_chars == {"!","@","#","$","%","^","&","*","(",")","_","+","-","=",
                  "[","]","{","}","|",";",":",",",".","<",">","?"}

MinPasswordLen == 8
BcryptMaxBytes == 72

PwEmpty == << >>
PwWeak  == <<"S","h","o","r","t","1","!">>
PwA     == <<"V","a","l","i","d","1","P","a","s","s","!">>
Pw72    == PwA \o [i \in 1..(BcryptMaxBytes - Len(PwA)) |-> "a"]
Pw73    == Pw72 \o <<"y">>
Passwords == {PwEmpty, PwWeak, PwA, Pw72, Pw73}

MsgValid == "Password is valid"

\* Mutant of validate_password_strength: the digit rule is applied before
\* the uppercase and lowercase rules.
validate_password_strength_DigitFirst(password) ==
    IF Len(password) < MinPasswordLen
      THEN <<FALSE, "Password must be at least 8 characters long">>
    ELSE IF ~ \E i \in 1..Len(password) : password[i] \in DigitChars
      THEN <<FALSE, "Password must contain at least one digit">>
    ELSE IF ~ \E i \in 1..Len(password) : password[i] \in UpperChars
      THEN <<FALSE, "Password must contain at least one uppercase letter">>
    ELSE IF ~ \E i \in 1..Len(password) : password[i] \in LowerChars
      THEN <<FALSE, "Password must contain at least one lowercase letter">>
    ELSE IF ~ \E i \in 1..Len(password) : password[i] \in special_chars
      THEN <<FALSE, "Password must contain at least one special character">>
    ELSE <<TRUE, MsgValid>>

\* PasswordUtils.validate_password_strength: <<is_valid, message>>
validate_password_strength(password) ==
    IF Len(password) < MinPasswordLen
      THEN <<FALSE, "Password must be at least 8 characters long">>
    ELSE IF ~ \E i \in 1..Len(password) : password[i] \in UpperChars
      THEN <<FALSE, "Password must contain at least one uppercase letter">>
    ELSE IF ~ \E i \in 1..Len(password) : password[i] \in LowerChars
      THEN <<FALSE, "Password must contain at least one lowercase letter">>
    ELSE IF ~ \E i \in 1..Len(password) : password[i] \in DigitChars
      THEN <<FALSE, "Password must contain at least one digit">>
    ELSE IF ~ \E i \in 1..Len(password) : password[i] \in special_chars
      THEN <<FALSE, "Password must contain at least one special character">>
    ELSE <<TRUE, MsgValid>>

\* bcrypt.hashpw raises ValueError on more than 72 bytes in the builds that
\* do not truncate.
BcryptRaises(password, truncates) ==
    ~truncates /\ Len(password) > BcryptMaxBytes

\* The bytes bcrypt feeds to its key schedule: at most the first 72.
BcryptKey(password) ==
    SubSeq(password, 1, IF Len(password) > BcryptMaxBytes
                          THEN BcryptMaxBytes ELSE Len(password))

\* PasswordUtils.hash_password with the salt gensalt() drew: the hash string
\* carries the salt and the digest of the key.
hash_password(password, salt) ==
    [salt |-> salt, digest |-> BcryptKey(password)]

\* PasswordUtils.verify_password: bcrypt.checkpw re-hashes the password with
\* the salt of the hash; any exception yields False.
verify_password(password, password_hash, truncates) ==
    IF BcryptRaises(password, truncates) THEN FALSE
    ELSE hash_password(password, password_hash.salt) = password_hash


(***************************************************************************)
(* Request payloads are dictionaries: functions whose domain is the set of *)
(* keys present.                                                           *)
(***************************************************************************)
EmptyDict == << >>
Emails == {"a@x.io", "b@x.io", "not-an-email"}
UserTypes == {"ADMIN", "USER", "GUEST"}

\* models/user.py: UserType
UserType == {"ADMIN", "USER"}
\* models/user.py: EmailStr accepts a syntactically valid address
EmailStrValid(email) == email \in {"a@x.io", "b@x.io"}
\* models/user.py: UserModel(email=..., user_type=..., chats=[]) validates
UserModelValid(email, user_type) ==
    EmailStrValid(email) /\ user_type \in UserType

\* ValidationError.errors(): one entry per refused field, in the order the
\* fields are declared in UserModel, naming the field and the refused input
ValidationErrors(email, user_type) ==
    (IF EmailStrValid(email) THEN << >>
     ELSE << [loc |-> "email", input |-> email] >>)
    \o (IF user_type \in UserType THEN << >>
        ELSE << [loc |-> "user_type", input |-> user_type] >>)

\* Payloads of POST /users: no payload, a missing key, every password with
\* the two valid emails, and the invalid email / user type cases.
CreateData ==
    {EmptyDict}
    \cup { ("email" :> "a@x.io") }
    \cup { ("user_type" :> "USER") @@ ("password" :> PwWeak) }
    \cup { ("email" :> e) @@ ("user_type" :> "USER") : e \in Emails }
    \cup { ("email" :> e) @@ ("user_type" :> "USER") @@ ("password" :> p) :
             e \in {"a@x.io", "b@x.io"}, p \in Passwords }
    \cup { ("email" :> "a@x.io") @@ ("user_type" :> u) : u \in UserTypes }
    \cup { ("email" :> "not-an-email") @@ ("user_type" :> "GUEST") @@ ("password" :> p) :
             p \in {PwWeak, PwA} }

\* Payloads of PUT /users/<id>/change-password.
ChangeData ==
    {EmptyDict}
    \cup { ("old_password" :> PwA) }
    \cup { ("new_password" :> PwA) }
    \cup { ("old_password" :> o) @@ ("new_password" :> n) :
             o \in {PwA, Pw72}, n \in {PwWeak, PwA, Pw72, Pw73} }

\* data.get('password'): truthy only when the key is present and non-empty
HasPassword(data) ==
    "password" \in DOMAIN data /\ data["password"] # PwEmpty

(***************************************************************************)
(* The users collection (UserUtils).  A document is a function from field  *)
(* names to values; password_hash is present only when a password was set. *)
(***************************************************************************)
NoDoc == << >>
UserIds == 1..MaxUserId

HasHash(doc) == doc # NoDoc /\ "password_hash" \in DOMAIN doc

\* UserUtils.get_user_by_email: the first document with that email, or None
UserUtils_get_user_by_email(s, email) ==
    IF \E i \in 1..Len(s) : s[i]["email"] = email
      THEN s[CHOOSE i \in 1..Len(s) :
                 /\ s[i]["email"] = email
                 /\ \A j \in 1..(i - 1) : s[j]["email"] # email]
      ELSE NoDoc

\* UserUtils.get_user: the document with that id, or None
UserUtils_get_user(s, user_id) ==
    IF user_id \in 1..Len(s) THEN s[user_id] ELSE NoDoc

\* UserUtils.create_user: insert a document (with the hash of the password
\* when one is given) and return the store with the new document last.
UserUtils_create_user(s, email, user_type, withPassword, password, salt, now) ==
    LET base == ("_id" :> (Len(s) + 1)) @@ ("email" :> email)
                @@ ("user_type" :> user_type) @@ ("created_at" :> now)
        doc  == IF withPassword
                  THEN base @@ ("password_hash" :> hash_password(password, salt))
                  ELSE base
    IN  Append(s, doc)

\* UserUtils.verify_user_password: fetch the user, verify against its hash
UserUtils_verify_user_password(s, user_id, password, truncates) ==
    LET user == UserUtils_get_user(s, user_id)
    IN  /\ HasHash(user)
        /\ verify_password(password, user["password_hash"], truncates)

\* UserUtils.update_user_password: set password_hash and updated_at of the
\* document with that id; the second component tells whether one matched.
UserUtils_update_user_password(s, user_id, password, salt, now) ==
    IF user_id \in 1..Len(s)
      THEN << [s EXCEPT ![user_id] =
                  ("password_hash" :> hash_password(password, salt))
                  @@ ("updated_at" :> now) @@ s[user_id]], TRUE >>
      ELSE << s, FALSE >>

Abs(n) == IF n < 0 THEN -n ELSE n
Min(a, b) == IF a < b THEN a ELSE b

\* UserUtils.get_all_users: skip documents, then return up to the limit in
\* insertion order.  The limit is applied as the store applies it: 0 means
\* no limit and a negative limit is taken by its absolute value.
UserUtils_get_all_users(s, limit, skip) ==
    LET rest == SubSeq(s, skip + 1, Len(s))
        n    == IF limit = 0 THEN Len(rest) ELSE Min(Abs(limit), Len(rest))
    IN  SubSeq(rest, 1, n)

\* The store refuses a negative skip with ValueError.
SkipRaisesValueError(skip) == skip < 0


(***************************************************************************)
(* UserController.  A response is the pair (body, status) the controller   *)
(* returns; op names the operation that produced it.                       *)
(***************************************************************************)
NoArg == [data |-> EmptyDict, user_id |-> 0]
NoResp == [op |-> "none", status |-> 0, body |-> EmptyDict]

Respond(op, body, status) ==
    resp' = [op |-> op, status |-> status, body |-> body]

Error(msg) == ("error" :> msg)
InternalError == Error("Internal server error")

\* Mutant of StripHash: the record is returned as stored.
StripHash_Keep(doc) == doc

\* user.pop('password_hash', None)
StripHash(doc) == [f \in (DOMAIN doc) \ {"password_hash"} |-> doc[f]]

Finish(r) ==
    /\ pc' = [pc EXCEPT ![r] = "idle"]
    /\ arg' = [arg EXCEPT ![r] = NoArg]

\* Mutant of create_user_validate: the strength of the password is not
\* checked.
create_user_validate_NoStrength(r, data) ==
    /\ pc[r] = "idle"
    /\ IF data = EmptyDict
         THEN /\ Respond("create_user", Error("No data provided"), 400)
              /\ UNCHANGED <<pc, arg, started>>
       ELSE IF "email" \notin DOMAIN data \/ "user_type" \notin DOMAIN data
         THEN /\ Respond("create_user", Error("email and user_type are required"), 400)
              /\ UNCHANGED <<pc, arg, started>>
       ELSE IF ~UserModelValid(data["email"], data["user_type"])
         THEN /\ Respond("create_user",
                         Error("Validation error")
                           @@ ("details" :> ValidationErrors(data["email"],
                                                             data["user_type"])),
                         400)
              /\ UNCHANGED <<pc, arg, started>>
       ELSE /\ started < MaxStarted
            /\ started' = started + 1
            /\ pc' = [pc EXCEPT ![r] = "create_check"]
            /\ arg' = [arg EXCEPT ![r] = [data |-> data, user_id |-> 0]]
            /\ resp' = NoResp
    /\ UNCHANGED <<store, clock, succ, serverUp, bcryptTruncates>>
    /\ UNCHANGED connVars
    /\ UNCHANGED pwVars

\* create_user, lines 28-51: the checks made before the database is read
create_user_validate(r, data) ==
    /\ pc[r] = "idle"
    /\ IF data = EmptyDict
         THEN /\ Respond("create_user", Error("No data provided"), 400)
              /\ UNCHANGED <<pc, arg, started>>
       ELSE IF "email" \notin DOMAIN data \/ "user_type" \notin DOMAIN data
         THEN /\ Respond("create_user", Error("email and user_type are required"), 400)
              /\ UNCHANGED <<pc, arg, started>>
       ELSE IF HasPassword(data) /\ ~validate_password_strength(data["password"])[1]
         THEN /\ Respond("create_user",
                         Error(validate_password_strength(data["password"])[2]), 400)
              /\ UNCHANGED <<pc, arg, started>>
       ELSE IF ~UserModelValid(data["email"], data["user_type"])
         THEN /\ Respond("create_user",
                         Error("Validation error")
                           @@ ("details" :> ValidationErrors(data["email"],
                                                             data["user_type"])),
                         400)
              /\ UNCHANGED <<pc, arg, started>>
       ELSE /\ started < MaxStarted
            /\ started' = started + 1
            /\ pc' = [pc EXCEPT ![r] = "create_check"]
            /\ arg' = [arg EXCEPT ![r] = [data |-> data, user_id |-> 0]]
            /\ resp' = NoResp
    /\ UNCHANGED <<store, clock, succ, serverUp, bcryptTruncates>>
    /\ UNCHANGED connVars
    /\ UNCHANGED pwVars

\* Mutant of create_user_check: the existence check is skipped.
create_user_check_NoLookup(r) ==
    /\ pc[r] = "create_check"
    /\ IF ~serverUp
         THEN Respond("create_user", InternalError, 500) /\ Finish(r)
         ELSE /\ pc' = [pc EXCEPT ![r] = "create_insert"]
              /\ UNCHANGED <<arg, resp>>
    /\ UNCHANGED <<store, clock, succ, started, serverUp, bcryptTruncates>>
    /\ UNCHANGED connVars
    /\ UNCHANGED pwVars

\* Mutant of create_user_check: the account is inserted before the
\* existence check is made.
create_user_check_InsertFirst(r) ==
    /\ pc[r] = "create_check"
    /\ IF ~serverUp
         THEN /\ Respond("create_user", InternalError, 500) /\ Finish(r)
              /\ UNCHANGED store
       ELSE IF UserUtils_get_user_by_email(store, arg[r].data["email"]) # NoDoc
         THEN /\ Respond("create_user", Error("User with this email already exists"), 409)
              /\ Finish(r)
              /\ store' = UserUtils_create_user(store, arg[r].data["email"],
                                                arg[r].data["user_type"], FALSE, PwEmpty, 1, clock)
       ELSE /\ pc' = [pc EXCEPT ![r] = "create_insert"]
            /\ UNCHANGED <<arg, resp, store>>
    /\ UNCHANGED <<clock, succ, started, serverUp, bcryptTruncates>>
    /\ UNCHANGED connVars
    /\ UNCHANGED pwVars

\* create_user, lines 53-56: the existence check
create_user_check(r) ==
    /\ pc[r] = "create_check"
    /\ IF ~serverUp
         THEN Respond("create_user", InternalError, 500) /\ Finish(r)
       ELSE IF UserUtils_get_user_by_email(store, arg[r].data["email"]) # NoDoc
         THEN /\ Respond("create_user", Error("User with this email already exists"), 409)
              /\ Finish(r)
       ELSE /\ pc' = [pc EXCEPT ![r] = "create_insert"]
            /\ UNCHANGED <<arg, resp>>
    /\ UNCHANGED <<store, clock, succ, started, serverUp, bcryptTruncates>>
    /\ UNCHANGED connVars
    /\ UNCHANGED pwVars

\* create_user, lines 58-73: the insert and the success response
create_user_insert(r) ==
    /\ pc[r] = "create_insert"
    /\ LET data == arg[r].data
           withPw == HasPassword(data)
           password == IF withPw THEN data["password"] ELSE PwEmpty
       IN  IF ~serverUp \/ (withPw /\ BcryptRaises(password, bcryptTruncates))
             THEN /\ Respond("create_user", InternalError, 500)
                  /\ UNCHANGED <<store, clock, succ>>
             ELSE \E salt \in Salts :
                  /\ store' = UserUtils_create_user(store, data["email"], data["user_type"],
                                                    withPw, password, salt, clock)
                  /\ clock' = clock + 1
                  /\ succ' = [succ EXCEPT ![data["email"]] = @ + 1]
                  /\ Respond("create_user",
                             ("message" :> "User created successfully")
                             @@ ("user_id" :> Len(store) + 1)
                             @@ ("email" :> data["email"])
                             @@ ("user_type" :> data["user_type"])
                             @@ (IF withPw THEN ("has_password" :> TRUE) ELSE EmptyDict),
                             201)
    /\ Finish(r)
    /\ UNCHANGED <<started, serverUp, bcryptTruncates>>
    /\ UNCHANGED connVars
    /\ UNCHANGED pwVars

\* Mutant of get_user: password_hash is popped from the stored document
\* itself, not from the copy that was fetched.
get_user_PopStored(user_id) ==
    /\ LET user == UserUtils_get_user(store, user_id)
       IN  IF ~serverUp
             THEN Respond("get_user", InternalError, 500) /\ UNCHANGED store
           ELSE IF user # NoDoc
             THEN /\ Respond("get_user",
                             ("message" :> "User retrieved successfully")
                             @@ ("user" :> StripHash(user)), 200)
                  /\ store' = [store EXCEPT ![user_id] = StripHash(user)]
           ELSE Respond("get_user", Error("User not found"), 404) /\ UNCHANGED store
    /\ UNCHANGED <<clock, pc, arg, succ, started, serverUp, bcryptTruncates>>
    /\ UNCHANGED connVars
    /\ UNCHANGED pwVars

\* get_user, lines 90-106
get_user(user_id) ==
    /\ LET user == UserUtils_get_user(store, user_id)
       IN  IF ~serverUp THEN Respond("get_user", InternalError, 500)
           ELSE IF user # NoDoc
             THEN Respond("get_user",
                          ("message" :> "User retrieved successfully")
                          @@ ("user" :> StripHash(user)), 200)
           ELSE Respond("get_user", Error("User not found"), 404)
    /\ UNCHANGED <<store, clock, pc, arg, succ, started, serverUp, bcryptTruncates>>
    /\ UNCHANGED connVars
    /\ UNCHANGED pwVars

\* get_user_by_email, lines 157-173
get_user_by_email(email) ==
    /\ LET user == UserUtils_get_user_by_email(store, email)
       IN  IF ~serverUp THEN Respond("get_user_by_email", InternalError, 500)
           ELSE IF user # NoDoc
             THEN Respond("get_user_by_email",
                          ("message" :> "User retrieved successfully")
                          @@ ("user" :> StripHash(user)), 200)
           ELSE Respond("get_user_by_email", Error("User not found"), 404)
    /\ UNCHANGED <<store, clock, pc, arg, succ, started, serverUp, bcryptTruncates>>
    /\ UNCHANGED connVars
    /\ UNCHANGED pwVars

\* get_all_users, line 189: limit = min(limit, 100)
MaxLimit == 100
ClampLimit(limit) == Min(limit, MaxLimit)

\* get_all_users, lines 187-210
get_all_users(limit, skip) ==
    /\ LET lim   == ClampLimit(limit)
           users == UserUtils_get_all_users(store, lim, skip)
       IN  IF ~serverUp THEN Respond("get_all_users", InternalError, 500)
           ELSE IF SkipRaisesValueError(skip)
             THEN Respond("get_all_users", Error("Invalid pagination parameters"), 400)
           ELSE Respond("get_all_users",
                        ("message" :> "Users retrieved successfully")
                        @@ ("users" :> [i \in 1..Len(users) |-> StripHash(users[i])])
                        @@ ("count" :> Len(users))
                        @@ ("limit" :> lim)
                        @@ ("skip" :> skip), 200)
    /\ UNCHANGED <<store, clock, pc, arg, succ, started, serverUp, bcryptTruncates>>
    /\ UNCHANGED connVars
    /\ UNCHANGED pwVars


\* change_password, lines 224-230: the payload checks
change_password_validate(r, user_id, data) ==
    /\ pc[r] = "idle"
    /\ IF data = EmptyDict
         THEN /\ Respond("change_password", Error("No data provided"), 400)
              /\ UNCHANGED <<pc, arg, started>>
       ELSE IF "old_password" \notin DOMAIN data \/ "new_password" \notin DOMAIN data
         THEN /\ Respond("change_password",
                         Error("old_password and new_password are required"), 400)
              /\ UNCHANGED <<pc, arg, started>>
       ELSE /\ started < MaxStarted
            /\ started' = started + 1
            /\ pc' = [pc EXCEPT ![r] = "change_find"]
            /\ arg' = [arg EXCEPT ![r] = [data |-> data, user_id |-> user_id]]
            /\ resp' = NoResp
    /\ UNCHANGED <<store, clock, succ, serverUp, bcryptTruncates>>
    /\ UNCHANGED connVars
    /\ UNCHANGED pwVars

\* Mutant of change_password_find: the check that a password is set is
\* missing, so the request goes on to verify the old password.
change_password_find_NoHashCheck(r) ==
    /\ pc[r] = "change_find"
    /\ LET user == UserUtils_get_user(store, arg[r].user_id)
       IN  IF ~serverUp
             THEN Respond("change_password", InternalError, 500) /\ Finish(r)
           ELSE IF user = NoDoc
             THEN Respond("change_password", Error("User not found"), 404) /\ Finish(r)
           ELSE /\ pc' = [pc EXCEPT ![r] = "change_verify"]
                /\ UNCHANGED <<arg, resp>>
    /\ UNCHANGED <<store, clock, succ, started, serverUp, bcryptTruncates>>
    /\ UNCHANGED connVars
    /\ UNCHANGED pwVars

\* Mutant of change_password_find: for an account without a password the
\* request goes straight to the update, which sets the new password.
change_password_find_SetIfMissing(r) ==
    /\ pc[r] = "change_find"
    /\ LET user == UserUtils_get_user(store, arg[r].user_id)
       IN  IF ~serverUp
             THEN Respond("change_password", InternalError, 500) /\ Finish(r)
           ELSE IF user = NoDoc
             THEN Respond("change_password", Error("User not found"), 404) /\ Finish(r)
           ELSE IF ~HasHash(user)
             THEN /\ pc' = [pc EXCEPT ![r] = "change_update"]
                  /\ UNCHANGED <<arg, resp>>
           ELSE /\ pc' = [pc EXCEPT ![r] = "change_verify"]
                /\ UNCHANGED <<arg, resp>>
    /\ UNCHANGED <<store, clock, succ, started, serverUp, bcryptTruncates>>
    /\ UNCHANGED connVars
    /\ UNCHANGED pwVars

\* change_password, lines 232-239: the user must exist and have a password
change_password_find(r) ==
    /\ pc[r] = "change_find"
    /\ LET user == UserUtils_get_user(store, arg[r].user_id)
       IN  IF ~serverUp
             THEN Respond("change_password", InternalError, 500) /\ Finish(r)
           ELSE IF user = NoDoc
             THEN Respond("change_password", Error("User not found"), 404) /\ Finish(r)
           ELSE IF ~HasHash(user)
             THEN /\ Respond("change_password",
                             Error("User does not have a password set"), 400)
                  /\ Finish(r)
           ELSE /\ pc' = [pc EXCEPT ![r] = "change_verify"]
                /\ UNCHANGED <<arg, resp>>
    /\ UNCHANGED <<store, clock, succ, started, serverUp, bcryptTruncates>>
    /\ UNCHANGED connVars
    /\ UNCHANGED pwVars

\* Mutant of change_password_verify: the strength of the new password is
\* checked before the old password is verified.
change_password_verify_StrengthFirst(r) ==
    /\ pc[r] = "change_verify"
    /\ LET data == arg[r].data
           old  == data["old_password"]
           new  == data["new_password"]
       IN  IF ~serverUp
             THEN Respond("change_password", InternalError, 500) /\ Finish(r)
           ELSE IF ~validate_password_strength(new)[1]
             THEN Respond("change_password",
                          Error(validate_password_strength(new)[2]), 400)
                  /\ Finish(r)
           ELSE IF ~UserUtils_verify_user_password(store, arg[r].user_id, old,
                                                   bcryptTruncates)
             THEN Respond("change_password", Error("Invalid old password"), 401)
                  /\ Finish(r)
           ELSE IF old = new
             THEN Respond("change_password",
                          Error("New password must be different from old password"), 400)
                  /\ Finish(r)
           ELSE /\ pc' = [pc EXCEPT ![r] = "change_update"]
                /\ UNCHANGED <<arg, resp>>
    /\ UNCHANGED <<store, clock, succ, started, serverUp, bcryptTruncates>>
    /\ UNCHANGED connVars
    /\ UNCHANGED pwVars

\* change_password, lines 241-252: re-authentication, then the checks on the
\* new password
change_password_verify(r) ==
    /\ pc[r] = "change_verify"
    /\ LET data == arg[r].data
           old  == data["old_password"]
           new  == data["new_password"]
       IN  IF ~serverUp
             THEN Respond("change_password", InternalError, 500) /\ Finish(r)
           ELSE IF ~UserUtils_verify_user_password(store, arg[r].user_id, old,
                                                   bcryptTruncates)
             THEN Respond("change_password", Error("Invalid old password"), 401)
                  /\ Finish(r)
           ELSE IF ~validate_password_strength(new)[1]
             THEN Respond("change_password",
                          Error(validate_password_strength(new)[2]), 400)
                  /\ Finish(r)
           ELSE IF old = new
             THEN Respond("change_password",
                          Error("New password must be different from old password"), 400)
                  /\ Finish(r)
           ELSE /\ pc' = [pc EXCEPT ![r] = "change_update"]
                /\ UNCHANGED <<arg, resp>>
    /\ UNCHANGED <<store, clock, succ, started, serverUp, bcryptTruncates>>
    /\ UNCHANGED connVars
    /\ UNCHANGED pwVars

\* change_password, lines 254-263: hash the new password and store it
change_password_update(r) ==
    /\ pc[r] = "change_update"
    /\ LET new == arg[r].data["new_password"]
           uid == arg[r].user_id
       IN  IF ~serverUp \/ BcryptRaises(new, bcryptTruncates)
             THEN /\ Respond("change_password", InternalError, 500)
                  /\ UNCHANGED <<store, clock>>
             ELSE \E salt \in Salts :
                  LET upd == UserUtils_update_user_password(store, uid, new, salt, clock)
                  IN  /\ store' = upd[1]
                      /\ clock' = IF upd[2] THEN clock + 1 ELSE clock
                      /\ IF upd[2]
                           THEN Respond("change_password",
                                        ("message" :> "Password changed successfully")
                                        @@ ("user_id" :> uid), 200)
                           ELSE Respond("change_password",
                                        Error("Failed to change password"), 500)
    /\ Finish(r)
    /\ UNCHANGED <<succ, started, serverUp, bcryptTruncates>>
    /\ UNCHANGED connVars
    /\ UNCHANGED pwVars

\* The MongoDB server becomes unreachable, or reachable again.
ServerToggle ==
    /\ serverUp' = ~serverUp
    /\ UNCHANGED <<store, clock, pc, arg, resp, succ, started, bcryptTruncates>>
    /\ UNCHANGED connVars
    /\ UNCHANGED pwVars

Limits == {-101, -1, 0, 1, 2, 100, 101, 1000}
Skips == {-1, 0, 1, 3}

\* The same query parameters, for the small collections the requests build.
SmallLimits == {0, 1, 1000}
SmallSkips == {-1, 0, 1}

(***************************************************************************)
(* MongoDBConnection (config/mongodb.py).  A client is identified by the   *)
(* order of its construction; the database handle of client c is c.  No    *)
(* lock guards the attributes: a caller thread can be interleaved between  *)
(* any two statements.                                                     *)
(***************************************************************************)
Threads == 1..NumThreads

NoRet == [kind |-> "none", handle |-> None]
Raised == [kind |-> "raised", handle |-> None]
NoAtt == [cached |-> FALSE, client |-> None, attempts |-> 0, db |-> None]

CallBegin(t, op, cached) ==
    /\ cpc[t] = "idle"
    /\ calls < MaxCalls
    /\ calls' = calls + 1
    /\ cop' = [cop EXCEPT ![t] = op]
    /\ cret' = [cret EXCEPT ![t] = NoRet]
    /\ catt' = [catt EXCEPT ![t] = [cached |-> cached, client |-> _client,
                                        attempts |-> 0, db |-> None]]

\* An exception leaves _connect and the accessor; inside test_connection it
\* reaches the except clause of line 106.
Raise(t) ==
    /\ cpc' = [cpc EXCEPT ![t] = IF cop[t] = "test_connection" THEN "except" ELSE "idle"]
    /\ cret' = [cret EXCEPT ![t] = Raised]

\* Mutant of get_client: the cached client is ignored and a connection is
\* made on every call.
get_client_AlwaysConnect(t) ==
    /\ CallBegin(t, "get_client", _client # None)
    /\ cpc' = [cpc EXCEPT ![t] = "connect"]
    /\ UNCHANGED <<_client, _database, created, closed, pinged>>
    /\ UNCHANGED <<serverUp, bcryptTruncates>>
    /\ UNCHANGED acctVars
    /\ UNCHANGED pwVars

\* get_client, line 87: if self._client is None
get_client(t) ==
    /\ CallBegin(t, "get_client", _client # None)
    /\ cpc' = [cpc EXCEPT ![t] = IF _client = None THEN "connect" ELSE "return"]
    /\ UNCHANGED <<_client, _database, created, closed, pinged>>
    /\ UNCHANGED <<serverUp, bcryptTruncates>>
    /\ UNCHANGED acctVars
    /\ UNCHANGED pwVars

\* get_database, line 93 (op = "get_database"), also entered from
\* get_collection, line 99 (op = "get_collection")
get_database(t, op) ==
    /\ CallBegin(t, op, _database # None)
    /\ cpc' = [cpc EXCEPT ![t] = IF _database = None THEN "connect" ELSE "return"]
    /\ UNCHANGED <<_client, _database, created, closed, pinged>>
    /\ UNCHANGED <<serverUp, bcryptTruncates>>
    /\ UNCHANGED acctVars
    /\ UNCHANGED pwVars

\* _connect, lines 61-65: self._client = MongoClient(...).  The constructor
\* does not contact the server; with an SRV url it resolves the host names
\* and can raise when the network is down.
connect_create(t) ==
    /\ cpc[t] = "connect"
    /\ \E ctorRaises \in IF serverUp THEN {FALSE} ELSE BOOLEAN :
         IF ctorRaises
           THEN /\ Raise(t)
                /\ UNCHANGED <<_client, created>>
           ELSE /\ created' = created + 1
                /\ _client' = created + 1
                /\ cpc' = [cpc EXCEPT ![t] = "ping"]
                /\ UNCHANGED cret
    /\ catt' = [catt EXCEPT ![t].attempts = @ + 1]
    /\ UNCHANGED <<_database, cop, closed, pinged, calls>>
    /\ UNCHANGED <<serverUp, bcryptTruncates>>
    /\ UNCHANGED acctVars
    /\ UNCHANGED pwVars

\* _connect, line 68: self._client.admin.command('ping'); any exception is
\* logged and re-raised (lines 75-83), leaving self._client as it is
connect_ping(t) ==
    /\ cpc[t] = "ping"
    /\ IF _client = None \/ _client \in closed \/ ~serverUp
         THEN /\ Raise(t)
              /\ UNCHANGED pinged
         ELSE /\ pinged' = pinged \cup {_client}
              /\ cpc' = [cpc EXCEPT ![t] = "setdb"]
              /\ UNCHANGED cret
    /\ UNCHANGED <<_client, _database, cop, catt, created, closed, calls>>
    /\ UNCHANGED <<serverUp, bcryptTruncates>>
    /\ UNCHANGED acctVars
    /\ UNCHANGED pwVars

\* _connect, line 72, right-hand side: self._client[MONGODB_DATABASE].  The
\* attribute is read and indexed (None is not subscriptable: TypeError,
\* re-raised by lines 81-83); the database object stays with the thread
\* until it is stored.
connect_setdb(t) ==
    /\ cpc[t] = "setdb"
    /\ IF _client = None
         THEN /\ Raise(t)
              /\ UNCHANGED catt
         ELSE /\ catt' = [catt EXCEPT ![t].db = _client]
              /\ cpc' = [cpc EXCEPT ![t] = "storedb"]
              /\ UNCHANGED cret
    /\ UNCHANGED <<_client, _database, cop, created, closed, pinged, calls>>
    /\ UNCHANGED <<serverUp, bcryptTruncates>>
    /\ UNCHANGED acctVars
    /\ UNCHANGED pwVars

\* _connect, line 72, assignment: self._database = <the database object>.
\* No lock is held: other threads can run between the read and this store.
connect_storedb(t) ==
    /\ cpc[t] = "storedb"
    /\ _database' = catt[t].db
    /\ catt' = [catt EXCEPT ![t].db = None]
    /\ cpc' = [cpc EXCEPT ![t] = "return"]
    /\ UNCHANGED <<_client, cop, cret, created, closed, pinged, calls>>
    /\ UNCHANGED <<serverUp, bcryptTruncates>>
    /\ UNCHANGED acctVars
    /\ UNCHANGED pwVars

\* lines 89, 95, 99: return self._client / self._database /
\* self.get_database()[collection_name]
accessor_return(t) ==
    /\ cpc[t] = "return"
    /\ cpc' = [cpc EXCEPT ![t] = IF cop[t] = "test_connection" THEN "health_ping" ELSE "idle"]
    /\ cret' = [cret EXCEPT ![t] =
                  IF cop[t] = "test_connection"
                    THEN [kind |-> "pending", handle |-> _client]
                  ELSE IF cop[t] = "get_client"
                    THEN [kind |-> "client", handle |-> _client]
                  ELSE IF cop[t] = "get_database"
                    THEN [kind |-> "database", handle |-> _database]
                  ELSE IF _database = None THEN Raised
                  ELSE [kind |-> "collection", handle |-> _database]]
    /\ UNCHANGED <<_client, _database, cop, catt, created, closed, pinged, calls>>
    /\ UNCHANGED <<serverUp, bcryptTruncates>>
    /\ UNCHANGED acctVars
    /\ UNCHANGED pwVars

\* test_connection, line 104: self.get_client()
test_connection(t) ==
    /\ CallBegin(t, "test_connection", _client # None)
    /\ cpc' = [cpc EXCEPT ![t] = IF _client = None THEN "connect" ELSE "return"]
    /\ UNCHANGED <<_client, _database, created, closed, pinged>>
    /\ UNCHANGED <<serverUp, bcryptTruncates>>
    /\ UNCHANGED acctVars
    /\ UNCHANGED pwVars

\* test_connection, lines 104-107: .admin.command('ping') on the client that
\* get_client returned; (True, "MongoDB connection is healthy") when the ping
\* is answered, (False, str(e)) when it raises
test_connection_ping(t) ==
    /\ cpc[t] = "health_ping"
    /\ cpc' = [cpc EXCEPT ![t] = "idle"]
    /\ cret' = [cret EXCEPT ![t] =
                  IF cret[t].handle = None \/ cret[t].handle \in closed \/ ~serverUp
                    THEN [kind |-> "unhealthy", handle |-> cret[t].handle]
                    ELSE [kind |-> "healthy", handle |-> cret[t].handle]]
    /\ UNCHANGED <<_client, _database, cop, catt, created, closed, pinged, calls>>
    /\ UNCHANGED <<serverUp, bcryptTruncates>>
    /\ UNCHANGED acctVars
    /\ UNCHANGED pwVars

\* Mutant of test_connection_except: the exception of get_client is not
\* caught and leaves test_connection.
test_connection_except_Propagate(t) ==
    /\ cpc[t] = "except"
    /\ cpc' = [cpc EXCEPT ![t] = "idle"]
    /\ cret' = [cret EXCEPT ![t] = Raised]
    /\ UNCHANGED <<_client, _database, cop, catt, created, closed, pinged, calls>>
    /\ UNCHANGED <<serverUp, bcryptTruncates>>
    /\ UNCHANGED acctVars
    /\ UNCHANGED pwVars

\* test_connection, lines 106-107: except Exception as e: return False, str(e)
test_connection_except(t) ==
    /\ cpc[t] = "except"
    /\ cpc' = [cpc EXCEPT ![t] = "idle"]
    /\ cret' = [cret EXCEPT ![t] = [kind |-> "unhealthy", handle |-> None]]
    /\ UNCHANGED <<_client, _database, cop, catt, created, closed, pinged, calls>>
    /\ UNCHANGED <<serverUp, bcryptTruncates>>
    /\ UNCHANGED acctVars
    /\ UNCHANGED pwVars

\* close_connection, line 111: if self._client
close_connection(t) ==
    /\ CallBegin(t, "close_connection", _client # None)
    /\ IF _client # None
         THEN cpc' = [cpc EXCEPT ![t] = "close"]
         ELSE cpc' = [cpc EXCEPT ![t] = "idle"]
    /\ UNCHANGED <<_client, _database, created, closed, pinged>>
    /\ UNCHANGED <<serverUp, bcryptTruncates>>
    /\ UNCHANGED acctVars
    /\ UNCHANGED pwVars

\* close_connection, line 112: self._client.close()
close_close(t) ==
    /\ cpc[t] = "close"
    /\ IF _client = None
         THEN /\ Raise(t)
              /\ UNCHANGED closed
         ELSE /\ closed' = closed \cup {_client}
              /\ cpc' = [cpc EXCEPT ![t] = "clear_client"]
              /\ UNCHANGED cret
    /\ UNCHANGED <<_client, _database, cop, catt, created, pinged, calls>>
    /\ UNCHANGED <<serverUp, bcryptTruncates>>
    /\ UNCHANGED acctVars
    /\ UNCHANGED pwVars

\* close_connection, line 113: self._client = None
close_clear_client(t) ==
    /\ cpc[t] = "clear_client"
    /\ _client' = None
    /\ cpc' = [cpc EXCEPT ![t] = "clear_database"]
    /\ UNCHANGED <<_database, cop, cret, catt, created, closed, pinged, calls>>
    /\ UNCHANGED <<serverUp, bcryptTruncates>>
    /\ UNCHANGED acctVars
    /\ UNCHANGED pwVars

\* close_connection, line 114: self._database = None
close_clear_database(t) ==
    /\ cpc[t] = "clear_database"
    /\ _database' = None
    /\ cpc' = [cpc EXCEPT ![t] = "idle"]
    /\ UNCHANGED <<_client, cop, cret, catt, created, closed, pinged, calls>>
    /\ UNCHANGED <<serverUp, bcryptTruncates>>
    /\ UNCHANGED acctVars
    /\ UNCHANGED pwVars

(***************************************************************************)
(* The account service: Init is the state after start-up, with an empty    *)
(* collection.                                                             *)
(***************************************************************************)
\* The module is imported with the server reachable: line 134 constructs the
\* singleton, whose __init__ connects; an exception there aborts the import.
ConnInit ==
    /\ _client = 1
    /\ _database = 1
    /\ cpc = [t \in Threads |-> "idle"]
    /\ cop = [t \in Threads |-> "none"]
    /\ cret = [t \in Threads |-> NoRet]
    /\ catt = [t \in Threads |-> NoAtt]
    /\ created = 1
    /\ closed = {}
    /\ pinged = {1}
    /\ calls = 0

AcctInit ==
    /\ store = << >>
    /\ clock = 1
    /\ pc = [r \in Reqs |-> "idle"]
    /\ arg = [r \in Reqs |-> NoArg]
    /\ resp = NoResp
    /\ succ = [e \in Emails |-> 0]
    /\ started = 0

\* No call of PasswordUtils on its own has been made.
NoPwIn == [p |-> PwEmpty, p2 |-> PwEmpty, salt |-> 0]
NoPwOut == [op |-> "none", raised |-> FALSE, result |-> <<FALSE, "">>,
            same |-> FALSE, other |-> FALSE]

Init ==
    /\ AcctInit
    /\ ConnInit
    /\ serverUp = TRUE
    /\ bcryptTruncates \in BOOLEAN
    /\ pwIn = NoPwIn
    /\ pwOut = NoPwOut

Next ==
    \/ \E r \in Reqs, data \in CreateData : create_user_validate(r, data)
    \/ \E r \in Reqs : create_user_check(r)
    \/ \E r \in Reqs : create_user_insert(r)
    \/ \E r \in Reqs, user_id \in UserIds, data \in ChangeData :
           change_password_validate(r, user_id, data)
    \/ \E r \in Reqs : change_password_find(r)
    \/ \E r \in Reqs : change_password_verify(r)
    \/ \E r \in Reqs : change_password_update(r)
    \/ ServerToggle

\* Concurrent requests that change the collection.
Spec == Init /\ [][Next]_vars

\* Requests that do not overlap: one request thread serves the requests one
\* after the other (which thread serves a request makes no difference when
\* no two requests overlap), and reads are served between requests.
SeqReqs == {1}
Alone(r) == \A q \in Reqs \ {r} : pc[q] = "idle"
Quiet == \A q \in Reqs : pc[q] = "idle"

SeqNext ==
    \/ \E r \in SeqReqs, data \in CreateData : Alone(r) /\ create_user_validate(r, data)
    \/ \E r \in SeqReqs : Alone(r) /\ create_user_check(r)
    \/ \E r \in SeqReqs : Alone(r) /\ create_user_insert(r)
    \/ \E r \in SeqReqs, user_id \in UserIds, data \in ChangeData :
           Alone(r) /\ change_password_validate(r, user_id, data)
    \/ \E r \in SeqReqs : Alone(r) /\ change_password_find(r)
    \/ \E r \in SeqReqs : Alone(r) /\ change_password_verify(r)
    \/ \E r \in SeqReqs : Alone(r) /\ change_password_update(r)
    \/ \E user_id \in UserIds : Quiet /\ get_user(user_id)
    \/ \E email \in Emails : Quiet /\ get_user_by_email(email)
    \/ \E limit \in SmallLimits, skip \in SmallSkips : Quiet /\ get_all_users(limit, skip)
    \/ ServerToggle

SeqSpec == Init /\ [][SeqNext]_vars


(***************************************************************************)
(* The connection manager on its own.                                      *)
(***************************************************************************)
ConnNext ==
    \/ \E t \in Threads : get_client(t)
    \/ \E t \in Threads, op \in {"get_database", "get_collection"} : get_database(t, op)
    \/ \E t \in Threads : connect_create(t)
    \/ \E t \in Threads : connect_ping(t)
    \/ \E t \in Threads : connect_setdb(t)
    \/ \E t \in Threads : connect_storedb(t)
    \/ \E t \in Threads : accessor_return(t)
    \/ \E t \in Threads : close_connection(t)
    \/ \E t \in Threads : close_close(t)
    \/ \E t \in Threads : close_clear_client(t)
    \/ \E t \in Threads : close_clear_database(t)
    \/ \E t \in Threads : test_connection(t)
    \/ \E t \in Threads : test_connection_ping(t)
    \/ \E t \in Threads : test_connection_except(t)
    \/ ServerToggle

\* Caller threads interleaved at every statement.
ConnSpec == Init /\ [][ConnNext]_vars

\* One call at a time: a call runs only while every other thread is idle.
CAlone(t) == \A u \in Threads \ {t} : cpc[u] = "idle"

ConnSeqNext ==
    \/ \E t \in Threads : CAlone(t) /\ get_client(t)
    \/ \E t \in Threads, op \in {"get_database", "get_collection"} :
           CAlone(t) /\ get_database(t, op)
    \/ \E t \in Threads : CAlone(t) /\ connect_create(t)
    \/ \E t \in Threads : CAlone(t) /\ connect_ping(t)
    \/ \E t \in Threads : CAlone(t) /\ connect_setdb(t)
    \/ \E t \in Threads : CAlone(t) /\ connect_storedb(t)
    \/ \E t \in Threads : CAlone(t) /\ accessor_return(t)
    \/ \E t \in Threads : CAlone(t) /\ close_connection(t)
    \/ \E t \in Threads : CAlone(t) /\ close_close(t)
    \/ \E t \in Threads : CAlone(t) /\ close_clear_client(t)
    \/ \E t \in Threads : CAlone(t) /\ close_clear_database(t)
    \/ \E t \in Threads : CAlone(t) /\ test_connection(t)
    \/ \E t \in Threads : CAlone(t) /\ test_connection_ping(t)
    \/ \E t \in Threads : CAlone(t) /\ test_connection_except(t)
    \/ ServerToggle

ConnSeqSpec == Init /\ [][ConnSeqNext]_vars


(***************************************************************************)
(* Listing a large collection: the collection holds n accounts created one *)
(* after the other, every second one with a password.                      *)
(***************************************************************************)
StoredAccounts(n) ==
    [i \in 1..n |->
        LET base == ("_id" :> i) @@ ("email" :> ("user" \o ToString(i) \o "@x.io"))
                    @@ ("user_type" :> "USER") @@ ("created_at" :> i)
        IN  IF i % 2 = 1
              THEN base @@ ("password_hash" :> hash_password(PwA, 1))
              ELSE base]

ListInit ==
    /\ \E n \in 0..MaxStored : store = StoredAccounts(n) /\ clock = n + 1
    /\ pc = [r \in Reqs |-> "idle"]
    /\ arg = [r \in Reqs |-> NoArg]
    /\ resp = NoResp
    /\ succ = [e \in Emails |-> 0]
    /\ started = 0
    /\ ConnInit
    /\ serverUp = TRUE
    /\ bcryptTruncates \in BOOLEAN
    /\ pwIn = NoPwIn
    /\ pwOut = NoPwOut

ListNext ==
    \/ \E limit \in Limits, skip \in Skips : get_all_users(limit, skip)
    \/ ServerToggle

ListSpec == ListInit /\ [][ListNext]_vars


(***************************************************************************)
(* PasswordUtils on its own: the plaintexts are drawn at the start, and    *)
(* the two steps apply validate_password_strength to p, and hash_password  *)
(* to p followed by verify_password of p and of p2 against that hash.      *)
(***************************************************************************)
PwLower1   == <<"a","l","l","l","o","w","e","r","1","!">>
PwUpper1   == <<"A","L","L","U","P","P","E","R","1","!">>
PwNoDigit  == <<"N","o","D","i","g","i","t","s","!">>
PwNoSpec   == <<"N","o","S","p","e","c","i","a","l","1">>
PwLower    == <<"p","a","s","s","w","o","r","d">>
PwUpper    == <<"P","A","S","S","W","O","R","D","1">>
PwLetters  == <<"P","a","s","s","w","o","r","d","s">>
PwDigits   == <<"1","2","3","4","5","6","7","8">>
Pw73x      == Pw72 \o <<"x">>
PlainTexts == {PwEmpty, PwWeak, PwA, Pw72, Pw73, Pw73x, PwLower1, PwUpper1,
               PwNoDigit, PwNoSpec, PwLower, PwUpper, PwLetters, PwDigits}

\* PasswordUtils.validate_password_strength(p)
ValidateStrength ==
    /\ pwOut' = [NoPwOut EXCEPT !.op = "validate_password_strength",
                                !.result = validate_password_strength(pwIn.p)]
    /\ UNCHANGED <<pwIn, serverUp, bcryptTruncates>>
    /\ UNCHANGED acctVars
    /\ UNCHANGED connVars

\* h = PasswordUtils.hash_password(p), which lets the exception of bcrypt
\* through; then PasswordUtils.verify_password(p, h) and (p2, h)
HashThenVerify ==
    /\ pwOut' = IF BcryptRaises(pwIn.p, bcryptTruncates)
                  THEN [NoPwOut EXCEPT !.op = "hash_password", !.raised = TRUE]
                  ELSE LET h == hash_password(pwIn.p, pwIn.salt)
                       IN  [NoPwOut EXCEPT
                              !.op = "verify_password",
                              !.same = verify_password(pwIn.p, h, bcryptTruncates),
                              !.other = verify_password(pwIn.p2, h, bcryptTruncates)]
    /\ UNCHANGED <<pwIn, serverUp, bcryptTruncates>>
    /\ UNCHANGED acctVars
    /\ UNCHANGED connVars

PwInit ==
    /\ AcctInit
    /\ ConnInit
    /\ serverUp = TRUE
    /\ bcryptTruncates \in BOOLEAN
    /\ pwIn \in [p : PlainTexts, p2 : PlainTexts, salt : Salts]
    /\ pwOut = NoPwOut

PwNext ==
    \/ ValidateStrength
    \/ HashThenVerify

PwSpec == PwInit /\ [][PwNext]_vars


(***************************************************************************)
(* Properties.                                                             *)
(***************************************************************************)
CountEmail(s, email) == Cardinality({i \in 1..Len(s) : s[i]["email"] = email})

\* C1: with requests that do not overlap, a create_user for a valid email
\* that is not stored yet passes the existence check and (server reachable,
\* password hashable) answers 201 and appends exactly one account with that
\* email; a create_user for a stored email answers 409 and inserts nothing;
\* so at most one create_user succeeds per email and every stored email was
\* inserted by exactly one 201.
C1_SequentialUniqueness ==
    /\ [](\A e \in Emails : succ[e] <= 1 /\ CountEmail(store, e) = succ[e])
    /\ [][\A r \in Reqs :
            /\ (pc[r] = "create_check" /\ pc'[r] # "create_check" /\ serverUp) =>
                 IF CountEmail(store, arg[r].data["email"]) > 0
                   THEN /\ pc'[r] = "idle"
                        /\ resp'.op = "create_user" /\ resp'.status = 409
                        /\ store' = store
                   ELSE pc'[r] = "create_insert" /\ store' = store
            /\ (/\ pc[r] = "create_insert" /\ pc'[r] = "idle" /\ serverUp
                /\ ~(HasPassword(arg[r].data)
                     /\ BcryptRaises(arg[r].data["password"], bcryptTruncates))) =>
                 /\ resp'.op = "create_user" /\ resp'.status = 201
                 /\ CountEmail(store, arg[r].data["email"]) = 0
                 /\ Len(store') = Len(store) + 1
                 /\ SubSeq(store', 1, Len(store)) = store
                 /\ store'[Len(store')]["email"] = arg[r].data["email"]
                 /\ succ' = [succ EXCEPT ![arg[r].data["email"]] = 1]
            /\ (pc[r] = "create_insert" /\ pc'[r] = "idle" /\ resp'.status # 201) =>
                 store' = store /\ succ' = succ
         ]_vars

\* C1 witness: a second create_user with a stored email has been answered 409.
C1_Witness ==
    /\ resp.op = "create_user" /\ resp.status = 409
    /\ succ["a@x.io"] = 1 /\ CountEmail(store, "a@x.io") = 1

\* C2: the collection never holds two accounts with the same email, whatever
\* the interleaving of concurrent create_user requests.
C2_EmailUnique ==
    \A e \in Emails : CountEmail(store, e) <= 1

ReadFields == {"_id", "email", "user_type", "created_at", "updated_at"}
CreatedFields == {"message", "user_id", "email", "user_type", "has_password"}

\* C3: no response carries a password hash: the user returned by get_user
\* and get_user_by_email and every user returned by get_all_users has no
\* password_hash field (only the other stored fields), and the 201 body of
\* create_user holds only message, user_id, email, user_type, has_password,
\* with has_password a flag.
C3_NoHashDisclosure ==
    /\ (resp.op \in {"get_user", "get_user_by_email"} /\ resp.status = 200) =>
          /\ "password_hash" \notin DOMAIN resp.body["user"]
          /\ DOMAIN resp.body["user"] \subseteq ReadFields
    /\ (resp.op = "get_all_users" /\ resp.status = 200) =>
          \A i \in 1..Len(resp.body["users"]) :
             /\ "password_hash" \notin DOMAIN resp.body["users"][i]
             /\ DOMAIN resp.body["users"][i] \subseteq ReadFields
    /\ (resp.op = "create_user" /\ resp.status = 201) =>
          /\ DOMAIN resp.body \subseteq CreatedFields
          /\ ("has_password" \in DOMAIN resp.body => resp.body["has_password"] = TRUE)

\* C3 witness: get_all_users has returned an account whose stored document
\* has a password hash.
C3_Witness ==
    /\ resp.op = "get_all_users" /\ resp.status = 200
    /\ \E i \in 1..Len(resp.body["users"]) :
          HasHash(UserUtils_get_user(store, resp.body["users"][i]["_id"]))


StoredHash(s, user_id) == UserUtils_get_user(s, user_id)["password_hash"]

\* C4: with requests that do not overlap, a change_password on an account
\* whose stored hash verifies against the old password, with a new password
\* that passes the strength policy and differs from the old one, answers 200
\* (server reachable), and afterwards the stored hash verifies against the
\* new password and no longer against the old one.
C4_ChangePasswordEffect ==
    [][\A r \in Reqs :
         (/\ pc[r] = "change_update" /\ pc'[r] = "idle" /\ serverUp
          /\ UserUtils_verify_user_password(store, arg[r].user_id,
                                            arg[r].data["old_password"], bcryptTruncates)
          /\ validate_password_strength(arg[r].data["new_password"])[1]
          /\ arg[r].data["new_password"] # arg[r].data["old_password"]) =>
            /\ resp'.op = "change_password" /\ resp'.status = 200
            /\ verify_password(arg[r].data["new_password"],
                               StoredHash(store', arg[r].user_id), bcryptTruncates)
            /\ ~verify_password(arg[r].data["old_password"],
                                StoredHash(store', arg[r].user_id), bcryptTruncates)
      ]_vars

\* C5: a change_password on an existing account without a password hash is
\* answered 400 "User does not have a password set" at the lookup, whatever
\* old and new passwords it carries: the request ends there (it never
\* reaches the verification that answers 401) and the collection is
\* unchanged.
C5_NoPasswordSet ==
    [][\A r \in Reqs :
         (/\ pc[r] = "change_find" /\ pc'[r] # "change_find" /\ serverUp
          /\ UserUtils_get_user(store, arg[r].user_id) # NoDoc
          /\ ~HasHash(UserUtils_get_user(store, arg[r].user_id))) =>
            /\ pc'[r] = "idle"
            /\ resp' = [op |-> "change_password", status |-> 400,
                        body |-> Error("User does not have a password set")]
            /\ store' = store
      ]_vars

\* C5 witness: the 400 answer has been given for an account stored without
\* a password hash.
C5_Witness ==
    /\ resp.op = "change_password" /\ resp.status = 400
    /\ resp.body = Error("User does not have a password set")
    /\ \E i \in 1..Len(store) : ~HasHash(store[i])

Rejections == {400, 401, 404, 409}

\* C9: a create_user or change_password request that is answered with a
\* rejection (400, 401, 404, 409) leaves the collection as it was: the step
\* that answers does not change it, no step before the last one of a request
\* changes it, and a step that changes the collection answers 200 or 201.
C9_RejectionsLeaveNoPartialState ==
    [][/\ \A r \in Reqs :
            /\ (pc[r] # "idle" /\ pc'[r] = "idle" /\ resp'.status \in Rejections) =>
                  store' = store
            /\ (pc[r] # "idle" /\ pc'[r] # "idle") => store' = store
            /\ (pc[r] = "idle" /\ pc'[r] # "idle") => store' = store
       /\ (pc' = pc) => store' = store
       /\ (store' # store) => resp'.status \in {200, 201}
      ]_vars

\* C9 witness: a change_password has been answered 401 on a collection that
\* holds an account.
C9_Witness ==
    /\ resp.op = "change_password" /\ resp.status = 401
    /\ Len(store) > 0


LiveClients == (1..created) \ closed
Handles == {"client", "database", "collection"}

\* C6: at most one client exists that has not been closed, under every
\* interleaving of the caller threads.
C6_AtMostOneClient ==
    Cardinality(LiveClients) <= 1

\* The cached client and database handle come from one establishment whose
\* ping succeeded, and have not been closed.
Established ==
    /\ _client # None /\ _database = _client
    /\ _client \in pinged /\ _client \notin closed

\* C7: with calls that do not overlap: while a successful establishment is
\* cached, no step constructs a client or changes the cached client and
\* database handle, and an accessor returns the cached handle; an accessor
\* that found its handle cached makes no connection attempt and one that
\* found none makes exactly one, whose client and database handle are cached
\* when it returns; close_connection closes the cached client and leaves
\* both attributes None.
C7_CachingAndReset ==
    [][/\ Established =>
            /\ created' = created
            /\ _client' = _client /\ _database' = _database
       /\ \A t \in Threads :
            /\ (Established /\ cpc[t] = "return" /\ cpc'[t] = "idle") =>
                  /\ cret'[t].kind \in Handles
                  /\ cret'[t].handle = _client
            /\ (cop[t] # "close_connection" /\ cpc[t] # "idle" /\ cpc'[t] = "idle") =>
                  catt'[t].attempts = IF catt[t].cached THEN 0 ELSE 1
            /\ (cpc[t] = "return" /\ ~catt[t].cached) =>
                  Established /\ _client = created
            /\ (cpc[t] = "clear_database" /\ cpc'[t] = "idle") =>
                  /\ _client' = None /\ _database' = None
                  /\ catt[t].client \in closed'
      ]_vars

\* C7 witness: after a close, an accessor that found no client cached has
\* made one attempt and returned the newly cached client.
C7_Witness ==
    \E t \in Threads :
        /\ cret[t].kind = "client" /\ ~catt[t].cached /\ catt[t].attempts = 1
        /\ closed # {} /\ Established /\ cret[t].handle = _client

\* C8: every handle an accessor has returned comes from an establishment
\* whose ping succeeded.
C8_ReturnedHandlesProbed ==
    \A t \in Threads :
        cret[t].kind \in Handles => cret[t].handle \in pinged

\* C10: a page returned by get_all_users holds at most 100 accounts, its
\* count is the number of accounts returned and the limit echoed is at most
\* 100, whatever limit and skip were asked and however many accounts are
\* stored.
C10_PageAtMost100 ==
    (resp.op = "get_all_users" /\ resp.status = 200) =>
        /\ resp.body["count"] = Len(resp.body["users"])
        /\ resp.body["count"] <= MaxLimit
        /\ resp.body["limit"] <= MaxLimit

\* C11: get_all_users answers every pair of integers (limit, skip) with a
\* page; the only other answer is the 500 of an unreachable server.
C11_ListNeverRejects ==
    resp.op = "get_all_users" =>
        \/ resp.status = 500
        \/ /\ resp.status = 200
           /\ {"users", "count", "limit", "skip"} \subseteq DOMAIN resp.body

\* C12: a create_user request that carries a password (the key is present,
\* whatever the string) goes on to the database only if the password passes
\* validate_password_strength, and is otherwise answered 400 with the reason;
\* an account inserted for a request that carries a password has the hash of
\* that password.
C12_PasswordGate ==
    [][\A r \in Reqs :
         /\ (pc[r] = "idle" /\ pc'[r] = "create_check"
              /\ "password" \in DOMAIN arg'[r].data) =>
                validate_password_strength(arg'[r].data["password"])[1]
         /\ (pc[r] = "create_insert" /\ store' # store
              /\ "password" \in DOMAIN arg[r].data) =>
                /\ validate_password_strength(arg[r].data["password"])[1]
                /\ HasHash(store'[Len(store')])
                /\ \E salt \in Salts :
                      store'[Len(store')]["password_hash"]
                        = hash_password(arg[r].data["password"], salt)
      ]_vars

\* The five rules of the policy, in their order, and their reasons.
PolicySpecials == {"!","@","#","$","%","^","&","*","(",")","_","+","-","=",
                   "[","]","{","}","|",";",":",",",".","<",">","?"}
PolicyRules(p) ==
    << Len(p) >= 8,
       \E i \in 1..Len(p) : p[i] \in UpperChars,
       \E i \in 1..Len(p) : p[i] \in LowerChars,
       \E i \in 1..Len(p) : p[i] \in DigitChars,
       \E i \in 1..Len(p) : p[i] \in PolicySpecials >>
PolicyReasons ==
    << "Password must be at least 8 characters long",
       "Password must contain at least one uppercase letter",
       "Password must contain at least one lowercase letter",
       "Password must contain at least one digit",
       "Password must contain at least one special character" >>

\* C13: validate_password_strength returns (False, reason of the first of
\* the five rules, in their order, that the password breaks), and
\* (True, "Password is valid") exactly when the password breaks none.
C13_FirstFailingRule ==
    pwOut.op = "validate_password_strength" =>
        LET failing == {k \in 1..5 : ~PolicyRules(pwIn.p)[k]}
        IN  /\ (failing = {}) <=> pwOut.result[1]
            /\ (failing = {}) => pwOut.result = <<TRUE, "Password is valid">>
            /\ (failing # {}) =>
                  pwOut.result =
                    <<FALSE, PolicyReasons[CHOOSE k \in failing :
                                             \A j \in failing : k <= j]>>

\* C13 witness: a password that breaks the uppercase, digit and special
\* character rules has been answered with the uppercase reason.
C13_Witness ==
    /\ pwOut.op = "validate_password_strength"
    /\ pwIn.p = PwLower
    /\ pwOut.result = <<FALSE, "Password must contain at least one uppercase letter">>

\* C14: for every non-empty plaintext p, hash_password(p) returns a hash
\* against which p verifies and no other plaintext p2 does.
C14_RoundTrip ==
    (pwOut.op \in {"hash_password", "verify_password"} /\ pwIn.p # PwEmpty) =>
        /\ ~pwOut.raised
        /\ pwOut.same
        /\ (pwIn.p2 # pwIn.p) => ~pwOut.other

HealthResults == {"healthy", "unhealthy"}

\* C15: test_connection always returns a pair: a call that ends, in whatever
\* state of the connection and of the server, ends with (True, ...) or
\* (False, ...) and never with an exception; it ends with (True, ...) only
\* from its ping, made on a client that is open while the server answers.
C15_HealthNeverRaises ==
    /\ [](\A t \in Threads :
            (cop[t] = "test_connection" /\ cpc[t] = "idle") =>
                cret[t].kind \in HealthResults)
    /\ [][\A t \in Threads :
            (cop[t] = "test_connection" /\ cpc[t] # "idle" /\ cpc'[t] = "idle") =>
               /\ cret'[t].kind \in HealthResults
               /\ (cret'[t].kind = "healthy") =>
                     /\ cpc[t] = "health_ping" /\ serverUp
                     /\ cret[t].handle # None /\ cret[t].handle \notin closed
         ]_vars

\* C15 witness: a test_connection that found no client cached and whose
\* establishment failed has returned (False, ...).
C15_Witness ==
    \E t \in Threads :
        /\ cop[t] = "test_connection" /\ cpc[t] = "idle"
        /\ ~catt[t].cached /\ catt[t].attempts = 1
        /\ cret[t] = [kind |-> "unhealthy", handle |-> None]

NoError == [status |-> 0, body |-> EmptyDict]
ChangeStates == {"change_find", "change_verify", "change_update"}

\* The error of the first failure condition of ChangePassword that holds, in
\* the order: account absent, no password set, old password does not verify,
\* new password too weak, new password equal to the old one.
ChangePasswordError(s, user_id, old, new, truncates) ==
    LET user == UserUtils_get_user(s, user_id)
    IN  IF user = NoDoc
          THEN [status |-> 404, body |-> Error("User not found")]
        ELSE IF "password_hash" \notin DOMAIN user
          THEN [status |-> 400, body |-> Error("User does not have a password set")]
        ELSE IF ~verify_password(old, user["password_hash"], truncates)
          THEN [status |-> 401, body |-> Error("Invalid old password")]
        ELSE IF \E k \in 1..5 : ~PolicyRules(new)[k]
          THEN [status |-> 400,
                body |-> Error(PolicyReasons[CHOOSE k \in 1..5 :
                                  /\ ~PolicyRules(new)[k]
                                  /\ \A j \in 1..(k - 1) : PolicyRules(new)[j]])]
        ELSE IF new = old
          THEN [status |-> 400,
                body |-> Error("New password must be different from old password")]
        ELSE NoError

\* C16: with the server reachable, a change_password request that carries
\* both passwords is answered with the error of the first failure condition
\* that holds in the order above; when none holds it is answered 200, or 500
\* when the update did not go through.
C16_ChangePasswordOrder ==
    [][\A r \in Reqs :
         (pc[r] \in ChangeStates /\ pc'[r] = "idle" /\ serverUp) =>
            LET err == ChangePasswordError(store, arg[r].user_id,
                                           arg[r].data["old_password"],
                                           arg[r].data["new_password"],
                                           bcryptTruncates)
            IN  /\ resp'.op = "change_password"
                /\ IF err # NoError
                      THEN resp'.status = err.status /\ resp'.body = err.body
                      ELSE /\ pc[r] = "change_update"
                           /\ resp'.status \in {200, 500}
                           /\ resp'.status = 500 => store' = store
      ]_vars

\* C16 witness: a request whose old password does not verify and whose new
\* password is too weak stands at the verification, past the lookup of an
\* account that exists and has a password.
C16_Witness ==
    \E r \in Reqs :
        /\ pc[r] = "change_verify" /\ serverUp
        /\ HasHash(UserUtils_get_user(store, arg[r].user_id))
        /\ ~verify_password(arg[r].data["old_password"],
                            StoredHash(store, arg[r].user_id), bcryptTruncates)
        /\ ~validate_password_strength(arg[r].data["new_password"])[1]

\* The first rejection of CreateAccount that holds before the collection is
\* read, in the order: email or user_type missing, supplied password too
\* weak, email or user_type invalid.
CreateUserError(data) ==
    IF "email" \notin DOMAIN data \/ "user_type" \notin DOMAIN data
      THEN [status |-> 400, body |-> Error("email and user_type are required")]
    ELSE IF "password" \in DOMAIN data
            /\ \E k \in 1..5 : ~PolicyRules(data["password"])[k]
      THEN [status |-> 400,
            body |-> Error(PolicyReasons[CHOOSE k \in 1..5 :
                              /\ ~PolicyRules(data["password"])[k]
                              /\ \A j \in 1..(k - 1) : PolicyRules(data["password"])[j]])]
    ELSE IF data["email"] \notin {"a@x.io", "b@x.io"}
            \/ data["user_type"] \notin {"ADMIN", "USER"}
      THEN [status |-> 400, body |-> Error("Validation error")]
    ELSE NoError

\* C17: a create_user request reaches the existence check only if none of
\* the first three rejections holds for it; at the existence check (server
\* reachable) it is answered 409 exactly when its email is stored; and every
\* stored account has the user type ADMIN or USER.
C17_CreateUserOrder ==
    /\ [](\A i \in 1..Len(store) : store[i]["user_type"] \in {"ADMIN", "USER"})
    /\ [][\A r \in Reqs :
            /\ (pc[r] = "idle" /\ pc'[r] = "create_check") =>
                  CreateUserError(arg'[r].data) = NoError
            /\ (pc[r] = "create_check" /\ pc'[r] # "create_check" /\ serverUp) =>
                  IF \E i \in 1..Len(store) : store[i]["email"] = arg[r].data["email"]
                    THEN /\ pc'[r] = "idle" /\ resp'.status = 409
                         /\ resp'.body = Error("User with this email already exists")
                    ELSE pc'[r] = "create_insert"
         ]_vars

ReadOps == {"get_user", "get_user_by_email", "get_all_users"}
FixedFields == {"_id", "email", "user_type", "created_at"}
CredentialFields == {"password_hash", "updated_at"}

\* C18: no step removes an account or changes the _id, email, user_type or
\* created_at of a stored account; a read (get_user, get_user_by_email,
\* get_all_users) leaves the collection as it is; a change_password that
\* ends changes at most password_hash and updated_at of the account with the
\* given id and nothing of any other account.
C18_LifecycleFrame ==
    [][/\ Len(store') >= Len(store)
       /\ \A i \in 1..Len(store) :
             /\ FixedFields \subseteq DOMAIN store'[i]
             /\ \A f \in FixedFields : store'[i][f] = store[i][f]
             /\ DOMAIN store[i] \subseteq DOMAIN store'[i]
       /\ (pc' = pc /\ resp'.op \in ReadOps) => store' = store
       /\ \A r \in Reqs :
             (pc[r] \in ChangeStates /\ pc'[r] = "idle") =>
                /\ Len(store') = Len(store)
                /\ \A i \in 1..Len(store) :
                      /\ i # arg[r].user_id => store'[i] = store[i]
                      /\ DOMAIN store'[i] \subseteq DOMAIN store[i] \cup CredentialFields
                      /\ \A f \in DOMAIN store[i] \ CredentialFields :
                            store'[i][f] = store[i][f]
      ]_vars

\* C18 witness: a change_password has succeeded on a collection that holds
\* a second account, and a read has been served after it.
C18_Witness ==
    /\ resp.op \in ReadOps /\ resp.status = 200
    /\ Len(store) >= 2
    /\ \E i \in 1..Len(store) : "updated_at" \in DOMAIN store[i]

\* C19: every stored password_hash is the hash, under its own salt, of a
\* plaintext that satisfies the five rules of the policy.
C19_StoredHashesPassPolicy ==
    \A i \in 1..Len(store) :
        "password_hash" \in DOMAIN store[i] =>
            \E p \in Passwords :
                /\ \A k \in 1..5 : PolicyRules(p)[k]
                /\ store[i]["password_hash"]
                     = hash_password(p, store[i]["password_hash"].salt)

\* C19 witness: the collection holds a hash stored by create_user and a hash
\* stored by change_password.
C19_Witness ==
    /\ \E i \in 1..Len(store) :
          "password_hash" \in DOMAIN store[i] /\ "updated_at" \in DOMAIN store[i]
    /\ \E i \in 1..Len(store) :
          "password_hash" \in DOMAIN store[i] /\ "updated_at" \notin DOMAIN store[i]

\* C20: a change_password that stores its new hash and answers 200
\* overwrites a hash that still verifies against the old password it
\* presented.
C20_ReauthenticatedAtUpdate ==
    [][\A r \in Reqs :
         (pc[r] = "change_update" /\ pc'[r] = "idle" /\ resp'.status = 200) =>
            /\ HasHash(UserUtils_get_user(store, arg[r].user_id))
            /\ verify_password(arg[r].data["old_password"],
                               StoredHash(store, arg[r].user_id), bcryptTruncates)
      ]_vars

\* C21, as claimed: a password can be set later on an account created
\* without one.  change_password is the only operation that writes a hash
\* to a stored account, so the claim is that a change_password request for
\* an existing account without a password, carrying a new password that
\* passes the policy, ends (server reachable) with the account holding a
\* password_hash.
C21_PasswordSetLater ==
    [][\A r \in Reqs :
         (/\ pc[r] \in ChangeStates /\ pc'[r] = "idle" /\ serverUp
          /\ UserUtils_get_user(store, arg[r].user_id) # NoDoc
          /\ ~HasHash(UserUtils_get_user(store, arg[r].user_id))
          /\ \A k \in 1..5 : PolicyRules(arg[r].data["new_password"])[k]) =>
            HasHash(UserUtils_get_user(store', arg[r].user_id))
      ]_vars

\* C21, amended: an account stored without a password_hash never acquires
\* one: no step of any operation adds a password_hash to a stored account
\* that has none.
C21_NoPasswordSetLater ==
    [][\A i \in 1..Len(store) :
          "password_hash" \notin DOMAIN store[i] =>
              "password_hash" \notin DOMAIN store'[i]
      ]_vars

\* C21 witness: a change_password for the first account, created without a
\* password, has been answered "User does not have a password set" while a
\* second account holds a password; the first account still has none.
C21_Witness ==
    /\ resp.op = "change_password" /\ resp.status = 400
    /\ resp.body = Error("User does not have a password set")
    /\ Len(store) = 2
    /\ "password_hash" \notin DOMAIN store[1]
    /\ "password_hash" \in DOMAIN store[2]

====
